---- MODULE Spec2Model ----
(***************************************************************************)
(* Model of the safe-cleanup verifier (SAFE_CLEANUP_VERIFICATION_SYSTEM.py) *)
(* and of the health-check runner (TEST_ORCHESTRATION_SYSTEM.py).           *)
(*                                                                         *)
(* Each public method is one action.  What the outside world answers (the  *)
(* gh search, the subprocesses, the disk) is an input of the action or a   *)
(* part of the state drawn in Init.                                        *)
(***************************************************************************)
EXTENDS Integers, Sequences, FiniteSets, TLC

VARIABLES
    \* ---- SafeCleanupVerifier: classification ----
    files_to_cleanup,   \* the list handed to the verifier
    oracle,             \* oracle[i]: what the i-th gh search of the call yields
    verifyResult,       \* last return value of verify_file_in_github
    report,             \* last return value of safe_cleanup_with_verification
    logFile,            \* contents of cleanup_verification_log.json
    queries,            \* filenames searched by the last operation, in order
    mainReturned,       \* main() has run to its end
    \* ---- SafeCleanupVerifier: restore ----
    disk,               \* set of backup paths that exist
    wdFile,             \* wdFile[f]: state of the working-directory path f
    restoreCall,        \* record of the last restore_file_from_backup call
    \* ---- SafeCleanupVerifier: publish ----
    cwd,                \* the process's current working directory
    homeExists,         \* whether /Users/divinejohns/memU exists on this machine
    clones,             \* set of directories that hold a clone
    cloneCount,         \* cloneCount[r]: clones of r performed by this process
    commitCall,         \* record of the last commit_file_to_github call
    \* ---- OrchestrationSystemTester ----
    probeEnv,           \* probeEnv[i]: what the i-th probe does on this machine
    total_tests, passed_tests, failed_tests,
    testReport,         \* last return value of run_comprehensive_tests
    testCall            \* record of the last run_test / run_comprehensive_tests call

cleanupVars == <<files_to_cleanup, oracle, verifyResult, report, logFile, queries, mainReturned>>
restoreVars == <<disk, wdFile, restoreCall>>
publishVars == <<cwd, homeExists, clones, cloneCount, commitCall>>
testerVars  == <<probeEnv, total_tests, passed_tests, failed_tests, testReport, testCall>>
vars == <<cleanupVars, restoreVars, publishVars, testerVars>>

None == [none |-> TRUE]

\* ------------------------------------------------------------- bounds
MaxFiles == 2    \* longest file list handed to the verifier
MaxDepth == 3    \* deepest working directory a publish call starts from
NumProbes == 4   \* the model runs the first NumProbes probes of the suite
MaxTotal == 8    \* cap on total_tests

\* ------------------------------------------------ helpers on sequences
Range(s) == {s[i] : i \in 1..Len(s)}

SeqsUpTo(S, n) == UNION {[1..k -> S] : k \in 0..n}

RECURSIVE Count(_, _)
Count(s, x) ==
    IF s = <<>> THEN 0
    ELSE (IF Head(s) = x THEN 1 ELSE 0) + Count(Tail(s), x)

\* ----------------------------------------------------------------------
\* Classification: verify_file_in_github, verify_multiple_files,
\* safe_cleanup_with_verification, main
\* ----------------------------------------------------------------------

Filenames == {"README.md", "ghost_file_12345.py"}

\* An entry of the parsed search output: a repository name stands for
\* {"repository": {"name": <name>}}, BadEntry for an element without that key.
BadEntry == "no-repository-key"
Entries == {"core", BadEntry}

\* stdout of an exit-0 search: unparseable text, a JSON list of entries, or
\* some other JSON value (truthy or falsy).
Stdouts ==
    {[t |-> "malformed"]}
    \cup {[t |-> "list", items |-> s] : s \in SeqsUpTo(Entries, 2)}
    \cup {[t |-> "other", truthy |-> b] : b \in BOOLEAN}

\* What subprocess.run of the gh search can do.
OracleOutcomes ==
    {[kind |-> "exit0", stdout |-> s] : s \in Stdouts}
    \cup {[kind |-> "nonzero"], [kind |-> "timeout"], [kind |-> "oserror"]}

\* bool(data) of line 30
Truthy(data) ==
    IF data.t = "list" THEN data.items # <<>> ELSE data.truthy

\* The body of the try block, lines 23-36: either a returned pair or the
\* exception it raises.
TrySearch(o) ==
    CASE o.kind = "timeout" -> [exc |-> "TimeoutExpired"]
      [] o.kind = "oserror" -> [exc |-> "Exception"]
      [] o.kind = "nonzero" -> [ret |-> <<FALSE, [text |-> "Search failed"]>>]
      [] o.kind = "exit0" ->
            IF o.stdout.t = "malformed" THEN [exc |-> "Exception"]      \* json.loads
            ELSE IF ~Truthy(o.stdout)
                 THEN [ret |-> <<FALSE, [text |-> "File not found in any GitHub repository"]>>]
            ELSE IF o.stdout.t # "list" \/ BadEntry \in Range(o.stdout.items)
                 THEN [exc |-> "Exception"]                             \* line 31
            ELSE [ret |-> <<TRUE, [text |-> "Found in repositories", repos |-> o.stdout.items]>>]

verify_file_in_github_failopen(o) ==
    LET r == TrySearch(o) IN
    IF "ret" \in DOMAIN r THEN r.ret
    ELSE IF r.exc = "TimeoutExpired" THEN <<TRUE, [text |-> "Search timed out"]>>
    ELSE <<FALSE, [text |-> "Error searching"]>>

verify_file_in_github(o) ==
    LET r == TrySearch(o) IN
    IF "ret" \in DOMAIN r THEN r.ret
    ELSE IF r.exc = "TimeoutExpired" THEN <<FALSE, [text |-> "Search timed out"]>>
    ELSE <<FALSE, [text |-> "Error searching"]>>

\* A Python dict as the sequence of its (key, value) items in insertion order.
DictKeys(d) == [i \in 1..Len(d) |-> d[i][1]]

DictPut(d, k, v) ==
    IF \E i \in 1..Len(d) : d[i][1] = k
    THEN [i \in 1..Len(d) |-> IF d[i][1] = k THEN <<k, v>> ELSE d[i]]
    ELSE Append(d, <<k, v>>)

\* lines 58-64; outs[i] is the answer to the i-th search
RECURSIVE VerifyLoop(_, _, _, _)
VerifyLoop(filenames, outs, i, results) ==
    IF i > Len(filenames) THEN results
    ELSE VerifyLoop(filenames, outs, i + 1,
                    DictPut(results, filenames[i], verify_file_in_github(outs[i])))

verify_multiple_files(filenames, outs) == VerifyLoop(filenames, outs, 1, <<>>)

\* The split as it would be if each entry were put in front (insert(0, ...))
RECURSIVE Categorize_prepend(_, _)
Categorize_prepend(items, wanted) ==
    IF items = <<>> THEN <<>>
    ELSE LET it == Head(items) IN
         IF it[2][1] = wanted
         THEN Categorize_prepend(Tail(items), wanted) \o <<(<<it[1], it[2][2]>>)>>
         ELSE Categorize_prepend(Tail(items), wanted)

\* lines 78-84: the items of the dict, split by their exists flag
RECURSIVE Categorize(_, _)
Categorize(items, wanted) ==
    IF items = <<>> THEN <<>>
    ELSE LET it == Head(items) IN
         IF it[2][1] = wanted
         THEN <<(<<it[1], it[2][2]>>)>> \o Categorize(Tail(items), wanted)
         ELSE Categorize(Tail(items), wanted)

\* lines 66-105, the report of lines 87-94 (the timestamp is left out)
safe_cleanup_report(files, outs) ==
    LET verification_results == verify_multiple_files(files, outs)
        safe_to_delete   == Categorize(verification_results, TRUE)
        unsafe_to_delete == Categorize(verification_results, FALSE)
    IN [total_files      |-> Len(files),
        safe_to_delete   |-> Len(safe_to_delete),
        unsafe_to_delete |-> Len(unsafe_to_delete),
        safe_files       |-> safe_to_delete,
        unsafe_files     |-> unsafe_to_delete]

\* lines 162-169 and 175
deleted_files ==
    <<"BILLIONAIRE_CONSCIOUSNESS_ORCHESTRATION_COMPLETE.py",
      "SESSION_AWARE_ORCHESTRATION_SYSTEM.py",
      "COMPLETE_ORCHESTRATION_INTEGRATION.py",
      "PROMPTING_ORCHESTRATION_SYSTEM.md",
      "TEST_ORCHESTRATION_SYSTEM.py",
      "FINAL_TEST_RESULTS.md">>
test_files == <<"README.md", "package.json">>

\* verifier.verify_file_in_github(files_to_cleanup[1])
VerifyFileInGithub ==
    /\ files_to_cleanup # <<>>
    /\ verifyResult' = verify_file_in_github(oracle[1])
    /\ queries' = <<files_to_cleanup[1]>>
    /\ UNCHANGED <<files_to_cleanup, oracle, report, logFile, mainReturned>>
    /\ UNCHANGED <<restoreVars, publishVars, testerVars>>

\* verifier.safe_cleanup_with_verification(files_to_cleanup)
SafeCleanupWithVerification ==
    /\ report' = safe_cleanup_report(files_to_cleanup, oracle)
    /\ logFile' = report'
    /\ queries' = files_to_cleanup
    /\ UNCHANGED <<files_to_cleanup, oracle, verifyResult, mainReturned>>
    /\ UNCHANGED <<restoreVars, publishVars, testerVars>>

\* The answers main()'s searches are given: found, not found, timed out.
MainAnswers ==
    {[kind |-> "exit0", stdout |-> [t |-> "list", items |-> <<"core">>]],
     [kind |-> "exit0", stdout |-> [t |-> "list", items |-> <<>>]],
     [kind |-> "timeout"]}

\* main(), lines 158-180: two verify_multiple_files calls whose results are
\* dropped; o is the kind of answer the oracle gives to its searches.
Main ==
    /\ \E o \in MainAnswers :
          LET r1 == verify_multiple_files(test_files, [i \in 1..Len(test_files) |-> o])
              r2 == verify_multiple_files(deleted_files, [i \in 1..Len(deleted_files) |-> o])
          IN queries' = DictKeys(r1) \o DictKeys(r2)
    /\ mainReturned' = TRUE
    /\ UNCHANGED <<files_to_cleanup, oracle, verifyResult, report, logFile>>
    /\ UNCHANGED <<restoreVars, publishVars, testerVars>>

NextCleanup ==
    \/ VerifyFileInGithub
    \/ SafeCleanupWithVerification
    \/ Main

\* ----------------------------------------------------------------------
\* Restore: restore_file_from_backup
\* ----------------------------------------------------------------------

RestoreFilename == "lost.py"

\* lines 109-115: the five locations, in order.  The third is the directory
\* .git/objects/ itself: its f-string has no {filename} in it.
GitObjects == <<".git/objects/">>
backup_locations(filename) ==
    << <<"backups", filename>>,
       <<"backup", filename>>,
       GitObjects,
       <<"__pycache__", filename>>,
       <<"temp", filename>> >>

\* What a path on the disk can be.  "file" copies fine; "unreadable" makes cp
\* fail before it touches the destination; "short" makes cp fail after it has
\* created the destination (a read error part-way); a directory makes cp fail
\* with "omitting directory" (no -r).  holdsFile: the lost file lies inside it.
FileStates == {"absent", "file", "unreadable", "short"}
DirStates  == {"absent", "dir", "holdsFile"}

\* os.path.exists(location), line 118
PathExists(d, location) == d[location] # "absent"

\* subprocess.run(['cp', location, filename], check=True), line 120:
\* <<raised, state of the destination afterwards>>
Cp(d, location, dest) ==
    CASE d[location] = "file"       -> <<FALSE, [state |-> "copy", from |-> location]>>
      [] d[location] = "short"      -> <<TRUE,  [state |-> "partial", from |-> location]>>
      [] OTHER                      -> <<TRUE, dest>>

\* The scan as it would be if a failed copy ended it (no "continue")
RECURSIVE RestoreScan_abort(_, _, _, _, _)
RestoreScan_abort(d, locs, i, dest, attempts) ==
    IF i > Len(locs)
    THEN [result |-> FALSE, dest |-> dest, attempts |-> attempts]
    ELSE IF PathExists(d, locs[i])
         THEN LET c == Cp(d, locs[i], dest) IN
              [result |-> ~c[1], dest |-> c[2], attempts |-> Append(attempts, i)]
         ELSE RestoreScan_abort(d, locs, i + 1, dest, attempts)

\* lines 117-127: the scan from location i on; attempts lists the locations
\* cp has been run on.
RECURSIVE RestoreScan(_, _, _, _, _)
RestoreScan(d, locs, i, dest, attempts) ==
    IF i > Len(locs)
    THEN [result |-> FALSE, dest |-> dest, attempts |-> attempts]
    ELSE IF PathExists(d, locs[i])
         THEN LET c == Cp(d, locs[i], dest) IN
              IF ~c[1]
              THEN [result |-> TRUE, dest |-> c[2], attempts |-> Append(attempts, i)]
              ELSE RestoreScan(d, locs, i + 1, c[2], Append(attempts, i))
         ELSE RestoreScan(d, locs, i + 1, dest, attempts)

restore_file_from_backup(d, filename, dest) ==
    RestoreScan(d, backup_locations(filename), 1, dest, <<>>)

FileLocations == {backup_locations(RestoreFilename)[i] : i \in {1, 2, 4, 5}}

\* The disks a process can find itself on.
Disks ==
    {d \in [FileLocations \cup {GitObjects} -> FileStates \cup DirStates] :
        /\ d[GitObjects] \in DirStates
        /\ \A l \in FileLocations : d[l] \in FileStates}

\* verifier.restore_file_from_backup(RestoreFilename)
RestoreFileFromBackup ==
    LET r == restore_file_from_backup(disk, RestoreFilename, wdFile) IN
    /\ wdFile' = r.dest
    /\ restoreCall' = [filename |-> RestoreFilename, result |-> r.result,
                       attempts |-> r.attempts, before |-> wdFile]
    /\ UNCHANGED disk
    /\ UNCHANGED <<cleanupVars, publishVars, testerVars>>

NextRestore ==
    \/ RestoreFileFromBackup

\* ----------------------------------------------------------------------
\* Publish: commit_file_to_github
\* ----------------------------------------------------------------------

\* A directory is the sequence of its components: the start directory or the
\* hard-coded one, then one component per temp_repos/<repo> below it.
Work == <<"work">>
Home == <<"/Users/divinejohns/memU">>      \* lines 149 and 155
Repos == {"repoA", "repoB"}

\* The subprocesses of a call, in the order of the code.
Subprocesses == <<"mkdir", "clone", "cp", "add", "commit", "push">>
Faults == Range(Subprocesses) \cup {"none"}

\* subprocess.run(..., check=True): runs the step unless an exception is
\* already on its way; the step raises when it is the one that fails.
Sub(st, step, fault) ==
    IF st.exc THEN st
    ELSE [st EXCEPT !.steps = Append(@, step), !.exc = (step = fault)]

\* gh repo clone, lines 135-138: a clone that succeeds creates the directory
CloneStep(st, repo, fault) ==
    LET t == Sub(st, "clone", fault) IN
    IF st.exc \/ t.exc THEN t
    ELSE [t EXCEPT !.clones = @ \cup {Append(st.cwd, repo)}, !.cloned = TRUE]

\* os.chdir(f'temp_repos/{target_repo}'), line 144
ChdirClone(st, repo) ==
    IF st.exc THEN st
    ELSE [st EXCEPT !.steps = Append(@, "chdir-clone"), !.cwd = Append(@, repo)]

\* os.chdir('/Users/divinejohns/memU'), lines 149 and 155: raises when the
\* directory does not exist
ChdirHome(st, home) ==
    IF st.exc THEN st
    ELSE IF home THEN [st EXCEPT !.steps = Append(@, "chdir-home"), !.cwd = Home]
    ELSE [st EXCEPT !.steps = Append(@, "chdir-home"), !.exc = TRUE]

\* lines 132-149: the try block
TryCommit(dir, cl, home, repo, fault) ==
    LET s0 == [steps |-> <<>>, exc |-> FALSE, cwd |-> dir, clones |-> cl, cloned |-> FALSE]
        s1 == IF Append(dir, repo) \in cl THEN s0
              ELSE CloneStep(Sub(s0, "mkdir", fault), repo, fault)
        s2 == Sub(s1, "cp", fault)
        s3 == ChdirClone(s2, repo)
        s4 == Sub(s3, "add", fault)
        s5 == Sub(s4, "commit", fault)
        s6 == Sub(s5, "push", fault)
    IN ChdirHome(s6, home)

\* lines 129-156: the try block, then the handler of lines 153-156
commit_file_to_github(dir, cl, home, repo, fault) ==
    LET t == TryCommit(dir, cl, home, repo, fault) IN
    IF ~t.exc
    THEN [steps |-> t.steps, cwd |-> t.cwd, clones |-> t.clones, cloned |-> t.cloned,
          result |-> "True"]
    ELSE LET h == ChdirHome([t EXCEPT !.exc = FALSE], home) IN
         [steps |-> h.steps, cwd |-> h.cwd, clones |-> h.clones, cloned |-> h.cloned,
          result |-> IF h.exc THEN "raised" ELSE "False"]

\* verifier.commit_file_to_github(filename, repo), with the subprocess that
\* fails in this call
CommitFileToGithub ==
    \E repo \in Repos, fault \in Faults :
        LET r == commit_file_to_github(cwd, clones, homeExists, repo, fault) IN
        /\ Len(cwd) <= MaxDepth
        /\ cwd' = r.cwd
        /\ clones' = r.clones
        /\ cloneCount' = IF r.cloned THEN [cloneCount EXCEPT ![repo] = @ + 1]
                         ELSE cloneCount
        /\ commitCall' = [repo |-> repo, fault |-> fault, steps |-> r.steps,
                          result |-> r.result, cwdBefore |-> cwd,
                          hadClone |-> Append(cwd, repo) \in clones]
        /\ UNCHANGED homeExists
        /\ UNCHANGED <<cleanupVars, restoreVars, testerVars>>

NextPublish ==
    \/ CommitFileToGithub

\* ----------------------------------------------------------------------
\* Health checks: run_test, run_comprehensive_tests
\* ----------------------------------------------------------------------

\* lines 258-270
tests ==
    <<"File Structure", "Cursor Rules", "System Health", "GitHub Connectivity",
      "Repository Verification", "Orchestrator Import", "Session System Import",
      "Integration System Import", "Orchestrator Functionality",
      "Session Management", "Integration System">>

Suite == SubSeq(tests, 1, NumProbes)

\* What calling a probe does: returns something truthy, something falsy, or raises.
ProbeOutcomes == {"true", "false", "raise"}

\* line 283; the rate is kept exact, as the fraction num/den
success_rate_fraction(passed, total) ==
    IF total > 0 THEN [num |-> passed, den |-> total] ELSE [num |-> 0, den |-> 1]

success_rate(passed, total) ==
    IF total > 0 THEN [num |-> passed * 100, den |-> total] ELSE [num |-> 0, den |-> 1]

\* lines 23-41 without the try/except: the exception of a probe goes on
run_test_unguarded(t, outcome) ==
    LET t1 == [t EXCEPT !.total = @ + 1] IN
    CASE outcome = "true"  -> [t |-> [t1 EXCEPT !.passed = @ + 1], ret |-> TRUE, exc |-> FALSE]
      [] outcome = "false" -> [t |-> [t1 EXCEPT !.failed = @ + 1], ret |-> FALSE, exc |-> FALSE]
      [] outcome = "raise" -> [t |-> t1, ret |-> FALSE, exc |-> TRUE]

\* lines 23-41; t holds the three counters of the tester
run_test(t, outcome) ==
    LET t1 == [t EXCEPT !.total = @ + 1] IN
    CASE outcome = "true"  -> [t |-> [t1 EXCEPT !.passed = @ + 1], ret |-> TRUE, exc |-> FALSE]
      [] outcome = "false" -> [t |-> [t1 EXCEPT !.failed = @ + 1], ret |-> FALSE, exc |-> FALSE]
      [] outcome = "raise" -> [t |-> [t1 EXCEPT !.failed = @ + 1], ret |-> FALSE, exc |-> FALSE]

\* lines 272-275: the loop from probe i on; an exception that run_test lets
\* through ends the loop
RECURSIVE RunLoop(_, _, _, _)
RunLoop(st, names, env, i) ==
    IF i > Len(names) \/ st.exc THEN st
    ELSE LET r == run_test(st.t, env[i]) IN
         RunLoop([t |-> r.t,
                  exc |-> r.exc,
                  executed |-> Append(st.executed, names[i]),
                  test_results |-> IF r.exc THEN st.test_results
                                   ELSE DictPut(st.test_results, names[i], r.ret)],
                 names, env, i + 1)

\* lines 272-286
run_comprehensive_tests(t, names, env) ==
    LET st == RunLoop([t |-> t, exc |-> FALSE, executed |-> <<>>, test_results |-> <<>>],
                      names, env, 1)
    IN [t |-> st.t, exc |-> st.exc, executed |-> st.executed,
        report |-> IF st.exc THEN None
                   ELSE [total_tests   |-> st.t.total,
                         passed_tests  |-> st.t.passed,
                         failed_tests  |-> st.t.failed,
                         success_rate  |-> success_rate(st.t.passed, st.t.total),
                         test_results  |-> st.test_results,
                         system_status |-> IF st.t.failed = 0 THEN "healthy"
                                           ELSE "issues_detected"]]

Counters == [total |-> total_tests, passed |-> passed_tests, failed |-> failed_tests]

\* tester.run_test(Suite[i], <the i-th probe>)
RunTest ==
    \E i \in 1..Len(Suite) :
        LET r == run_test(Counters, probeEnv[i]) IN
        /\ total_tests + 1 <= MaxTotal
        /\ total_tests' = r.t.total
        /\ passed_tests' = r.t.passed
        /\ failed_tests' = r.t.failed
        /\ testCall' = [op |-> "run_test", raised |-> r.exc, executed |-> <<Suite[i]>>,
                        before |-> Counters]
        /\ UNCHANGED <<probeEnv, testReport>>
        /\ UNCHANGED <<cleanupVars, restoreVars, publishVars>>

\* tester.run_comprehensive_tests()
RunComprehensiveTests ==
    LET r == run_comprehensive_tests(Counters, Suite, probeEnv) IN
    /\ total_tests + Len(Suite) <= MaxTotal
    /\ total_tests' = r.t.total
    /\ passed_tests' = r.t.passed
    /\ failed_tests' = r.t.failed
    /\ testReport' = IF r.exc THEN testReport ELSE r.report
    /\ testCall' = [op |-> "run_comprehensive_tests", raised |-> r.exc,
                    executed |-> r.executed, before |-> Counters]
    /\ UNCHANGED probeEnv
    /\ UNCHANGED <<cleanupVars, restoreVars, publishVars>>

NextTests ==
    \/ RunTest
    \/ RunComprehensiveTests

\* ----------------------------------------------------------------------
\* Specifications: one per part of the program; the other parts stay idle
\* ----------------------------------------------------------------------
NoDisk == [l \in FileLocations \cup {GitObjects} |-> "absent"]

InitCleanup ==
    /\ files_to_cleanup \in SeqsUpTo(Filenames, MaxFiles)
    /\ oracle \in [1..Len(files_to_cleanup) -> OracleOutcomes]
    /\ verifyResult = None
    /\ report = None
    /\ logFile = None
    /\ queries = <<>>
    /\ mainReturned = FALSE
    /\ disk = NoDisk
    /\ wdFile = [state |-> "absent"]
    /\ restoreCall = None
    /\ cwd = Work
    /\ homeExists = TRUE
    /\ clones = {}
    /\ cloneCount = [r \in Repos |-> 0]
    /\ commitCall = None
    /\ probeEnv = <<>>
    /\ total_tests = 0
    /\ passed_tests = 0
    /\ failed_tests = 0
    /\ testReport = None
    /\ testCall = None

InitRestore ==
    /\ files_to_cleanup = <<>>
    /\ oracle = <<>>
    /\ verifyResult = None
    /\ report = None
    /\ logFile = None
    /\ queries = <<>>
    /\ mainReturned = FALSE
    /\ disk \in Disks
    /\ wdFile \in {[state |-> "absent"], [state |-> "old"]}
    /\ restoreCall = None
    /\ cwd = Work
    /\ homeExists = TRUE
    /\ clones = {}
    /\ cloneCount = [r \in Repos |-> 0]
    /\ commitCall = None
    /\ probeEnv = <<>>
    /\ total_tests = 0
    /\ passed_tests = 0
    /\ failed_tests = 0
    /\ testReport = None
    /\ testCall = None

InitPublish ==
    /\ files_to_cleanup = <<>>
    /\ oracle = <<>>
    /\ verifyResult = None
    /\ report = None
    /\ logFile = None
    /\ queries = <<>>
    /\ mainReturned = FALSE
    /\ disk = NoDisk
    /\ wdFile = [state |-> "absent"]
    /\ restoreCall = None
    /\ homeExists \in BOOLEAN
    /\ cwd \in {Work} \cup (IF homeExists THEN {Home} ELSE {})
    /\ clones = {}
    /\ cloneCount = [r \in Repos |-> 0]
    /\ commitCall = None
    /\ probeEnv = <<>>
    /\ total_tests = 0
    /\ passed_tests = 0
    /\ failed_tests = 0
    /\ testReport = None
    /\ testCall = None

InitTests ==
    /\ files_to_cleanup = <<>>
    /\ oracle = <<>>
    /\ verifyResult = None
    /\ report = None
    /\ logFile = None
    /\ queries = <<>>
    /\ mainReturned = FALSE
    /\ disk = NoDisk
    /\ wdFile = [state |-> "absent"]
    /\ restoreCall = None
    /\ cwd = Work
    /\ homeExists = TRUE
    /\ clones = {}
    /\ cloneCount = [r \in Repos |-> 0]
    /\ commitCall = None
    /\ probeEnv \in [1..Len(Suite) -> ProbeOutcomes]
    /\ total_tests = 0
    /\ passed_tests = 0
    /\ failed_tests = 0
    /\ testReport = None
    /\ testCall = None

\* ----------------------------------------------------------------------
\* Properties
\* ----------------------------------------------------------------------

BucketNames(r) ==
    [i \in 1..Len(r.safe_files) |-> r.safe_files[i][1]]
    \o [i \in 1..Len(r.unsafe_files) |-> r.unsafe_files[i][1]]

\* C1: the report of safe_cleanup_with_verification has
\* safe_to_delete + unsafe_to_delete = total_files, and every input filename
\* appears exactly once over safe_files and unsafe_files, also when the input
\* list names a file more than once.
C1_Partition ==
    report # None =>
        /\ report.safe_to_delete + report.unsafe_to_delete = report.total_files
        /\ report.total_files = Len(files_to_cleanup)
        /\ \A i \in 1..Len(files_to_cleanup) :
               Count(BucketNames(report), files_to_cleanup[i]) = 1
        /\ Range(BucketNames(report)) = Range(files_to_cleanup)

\* The search succeeded and named at least one owning repository.
GoodSearch(o) ==
    /\ o.kind = "exit0"
    /\ o.stdout.t = "list"
    /\ Len(o.stdout.items) >= 1
    /\ \A i \in 1..Len(o.stdout.items) : o.stdout.items[i] # BadEntry

\* Zero repositories, a non-zero exit, a timeout, malformed output, or an error.
BadSearch(o) ==
    \/ o.kind \in {"nonzero", "timeout", "oserror"}
    \/ /\ o.kind = "exit0"
       /\ \/ o.stdout.t \in {"malformed", "other"}
          \/ o.stdout.t = "list" /\ o.stdout.items = <<>>
          \/ o.stdout.t = "list" /\ BadEntry \in Range(o.stdout.items)

\* The search of the call whose answer decides the entry of file f.
LastSearch(f) ==
    oracle[CHOOSE i \in 1..Len(files_to_cleanup) :
              /\ files_to_cleanup[i] = f
              /\ \A j \in (i + 1)..Len(files_to_cleanup) : files_to_cleanup[j] # f]

\* C2: fail-closed classification.  verify_file_in_github returns a pair whose
\* flag is TRUE only after a search that succeeded and named a repository, and
\* FALSE after every search that found nothing, failed, timed out or was
\* malformed; the buckets of the report follow the same rule.
C2_FailClosed ==
    /\ verifyResult # None =>
          /\ verifyResult[1] \in BOOLEAN
          /\ verifyResult[1] => GoodSearch(oracle[1])
          /\ BadSearch(oracle[1]) => ~verifyResult[1]
    /\ report # None =>
          /\ \A i \in 1..Len(report.safe_files) :
                GoodSearch(LastSearch(report.safe_files[i][1]))
          /\ \A f \in Range(files_to_cleanup) :
                BadSearch(LastSearch(f)) =>
                    \E i \in 1..Len(report.unsafe_files) : report.unsafe_files[i][1] = f

\* C2 witness: a search that timed out has been classified, alone and in a report.
C2_Witness ==
    /\ verifyResult # None
    /\ oracle[1].kind = "timeout"
    /\ ~verifyResult[1]
    /\ report # None
    /\ report.unsafe_to_delete >= 1
    /\ Len(files_to_cleanup) = 2
    /\ GoodSearch(oracle[2])
    /\ files_to_cleanup[1] # files_to_cleanup[2]

\* C3: when commit_file_to_github returns, the working directory is the one
\* the call started in, on success and whatever step failed; a call whose
\* push fails returns false with the directory unchanged.
C3_CwdRestored ==
    (commitCall # None /\ commitCall.result \in {"True", "False"}) =>
        /\ cwd = commitCall.cwdBefore
        /\ commitCall.fault = "push" => commitCall.result = "False"

\* The steps of a trace that are subprocesses, in order.
SubSteps(steps) == SelectSeq(steps, LAMBDA x : x \in Range(Subprocesses))

\* C4: a step of commit_file_to_github that fails is the last one run and
\* the call then returns false instead of raising; push runs at most once,
\* and only after the clone is there and cp, add and commit have succeeded.
C4_AbortOnFailure ==
    commitCall # None =>
        LET sub == SubSteps(commitCall.steps) IN
        /\ commitCall.fault \in Range(sub) =>
              /\ sub[Len(sub)] = commitCall.fault
              /\ commitCall.result = "False"
        /\ Count(sub, "push") <= 1
        /\ "push" \in Range(sub) =>
              /\ {"cp", "add", "commit"} \subseteq Range(sub)
              /\ commitCall.fault \in {"push", "none"}
              /\ commitCall.hadClone \/ "clone" \in Range(sub)

OnlyThirdLocation ==
    /\ disk[GitObjects] = "holdsFile"
    /\ \A l \in FileLocations : disk[l] = "absent"

\* C5: a file present only in the third backup location is restored:
\* restore_file_from_backup returns true and the file is in the working
\* directory afterwards.
C5_ThirdLocationRestores ==
    (restoreCall # None /\ OnlyThirdLocation) =>
        /\ restoreCall.result = TRUE
        /\ wdFile.state = "copy"

\* The probes of the suite that do not return something truthy.
NotPassing == {k \in 1..Len(Suite) : probeEnv[k] # "true"}

SuiteRan == testCall # None /\ testCall.op = "run_comprehensive_tests"

\* What C6 says whatever the counters were before the run.
C6_Body ==
    /\ ~testCall.raised
    /\ testCall.executed = Suite
    /\ DictKeys(testReport.test_results) = Suite
    /\ \A k \in 1..Len(Suite) :
          testReport.test_results[k][2] = (probeEnv[k] = "true")
    /\ testReport.failed_tests = testCall.before.failed + Cardinality(NotPassing)
    /\ testReport.passed_tests =
          testCall.before.passed + (Len(Suite) - Cardinality(NotPassing))

\* C6 as stated: a probe that raises is caught, counted as failed and recorded
\* false, the later probes still run in order, and the report has
\* total_tests = N.
C6_TotalIsN ==
    SuiteRan => (C6_Body /\ testReport.total_tests = Len(Suite))

\* C6 amended: as stated, but total_tests grows by N over the run, so it is N
\* only when the counters were zero before (a freshly constructed tester).
C6_Isolation ==
    SuiteRan =>
        /\ C6_Body
        /\ testReport.total_tests = testCall.before.total + Len(Suite)
        /\ testCall.before.total = 0 => testReport.total_tests = Len(Suite)

\* C6 witness: a suite has run on a fresh tester in which a probe that is not
\* the last one raised.
C6_Witness ==
    /\ SuiteRan
    /\ testCall.before.total = 0
    /\ \E k \in 1..(Len(Suite) - 1) : probeEnv[k] = "raise" /\ probeEnv[k + 1] = "true"

RateInRange(r) == r.den > 0 /\ 0 <= r.num /\ r.num <= 100 * r.den
RateIs(r, n) == r.num = n * r.den

\* C7: the success rate (line 283) is passed/total*100, within [0, 100]; it
\* is 0 when total_tests is 0 and 75 when 3 of 4 probes passed.  Checked on
\* the counters of every state and on every report.
C7_SuccessRate ==
    LET r == success_rate(passed_tests, total_tests) IN
    /\ RateInRange(r)
    /\ total_tests = 0 => RateIs(r, 0)
    /\ total_tests > 0 => r.num * total_tests = passed_tests * 100 * r.den
    /\ (passed_tests = 3 /\ total_tests = 4) => RateIs(r, 75)
    /\ testReport # None =>
          /\ RateInRange(testReport.success_rate)
          /\ testReport.success_rate.num * testReport.total_tests
                = testReport.passed_tests * 100 * testReport.success_rate.den
          /\ (testReport.passed_tests = 3 /\ testReport.total_tests = 4)
                => RateIs(testReport.success_rate, 75)

\* C7 witness: a report of a run in which 3 of 4 probes passed.
C7_Witness ==
    /\ testReport # None
    /\ testReport.passed_tests = 3
    /\ testReport.total_tests = 4
    /\ RateIs(testReport.success_rate, 75)

\* C8: when main() returns, a classification report over its file list has
\* been built and persisted.
C8_MainPersistsReport ==
    mainReturned =>
        /\ logFile # None
        /\ logFile.total_files = Len(deleted_files)
        /\ Range(BucketNames(logFile)) = Range(deleted_files)

\* The locations that exist, as indices into backup_locations.
Existing ==
    {i \in 1..5 : PathExists(disk, backup_locations(RestoreFilename)[i])}
Copies(i) == disk[backup_locations(RestoreFilename)[i]] = "file"
LeavesPartial(i) == disk[backup_locations(RestoreFilename)[i]] = "short"

\* The scan itself: locations are tried in order, missing ones are skipped,
\* a failed copy is followed by the next location, the first good copy ends
\* the scan with true, and false is returned when no copy succeeds.
C9_Scan ==
    LET a == restoreCall.attempts IN
    /\ \A j \in 1..(Len(a) - 1) : a[j] < a[j + 1]
    /\ Range(a) \subseteq Existing
    /\ restoreCall.result = (\E i \in Existing : Copies(i))
    /\ restoreCall.result =>
          /\ a # <<>>
          /\ Copies(a[Len(a)])
          /\ \A i \in Existing : Copies(i) => a[Len(a)] <= i
          /\ Range(a) = {i \in Existing : i <= a[Len(a)]}
          /\ wdFile = [state |-> "copy",
                       from |-> backup_locations(RestoreFilename)[a[Len(a)]]]
    /\ ~restoreCall.result => Range(a) = Existing

\* C9 as stated: the scan, and when no copy succeeded no file is created at
\* the working-directory path.
C9_NoFileOnFailure ==
    restoreCall # None =>
        /\ C9_Scan
        /\ (~restoreCall.result /\ restoreCall.before.state = "absent")
              => wdFile.state = "absent"

\* C9 amended: the scan; when no copy succeeded the working-directory path is
\* as it was before, unless a copy that failed had begun to write it (cp can
\* leave a partial file); with no location on disk nothing is written.
C9_ScanAmended ==
    restoreCall # None =>
        /\ C9_Scan
        /\ ~restoreCall.result =>
              /\ (\A i \in Existing : ~LeavesPartial(i)) => wdFile = restoreCall.before
              /\ Existing = {} => (restoreCall.attempts = <<>> /\ wdFile = restoreCall.before)

\* C9 witness: the first location failed to copy, a later one succeeded and a
\* still later one, also good, was not tried.
C9_Witness ==
    /\ restoreCall # None
    /\ restoreCall.result
    /\ disk[backup_locations(RestoreFilename)[1]] = "unreadable"
    /\ disk[backup_locations(RestoreFilename)[2]] = "absent"
    /\ restoreCall.attempts = <<1, 3, 4>>
    /\ Copies(5)

\* C10: within one process a repository is cloned at most once.
C10_CloneOnce ==
    \A r \in Repos : cloneCount[r] <= 1

\* Where filename f first stands in the input list.
FirstIndex(f) ==
    CHOOSE i \in 1..Len(files_to_cleanup) :
        /\ files_to_cleanup[i] = f
        /\ \A j \in 1..(i - 1) : files_to_cleanup[j] # f

\* The entries of a bucket stand in the order of the input list.
InInputOrder(bucket) ==
    /\ \A i \in 1..Len(bucket) : bucket[i][1] \in Range(files_to_cleanup)
    /\ \A i, j \in 1..Len(bucket) :
          i < j => FirstIndex(bucket[i][1]) < FirstIndex(bucket[j][1])

\* C11: in the report of safe_cleanup_with_verification the entries of
\* safe_files, and those of unsafe_files, stand in the same relative order as
\* their filenames in the input list (a filename given more than once counts
\* where it first stands).
C11_BucketOrder ==
    report # None =>
        /\ InInputOrder(report.safe_files)
        /\ InInputOrder(report.unsafe_files)

\* C11 witness: a report with two different files in one bucket.
C11_Witness ==
    /\ report # None
    /\ Len(report.unsafe_files) = 2
    /\ report.unsafe_files[1][1] = files_to_cleanup[1]
    /\ report.unsafe_files[2][1] = files_to_cleanup[2]

SpecCleanup == InitCleanup /\ [][NextCleanup]_vars
SpecRestore == InitRestore /\ [][NextRestore]_vars
SpecPublish == InitPublish /\ [][NextPublish]_vars
SpecTests   == InitTests /\ [][NextTests]_vars
====
